---- MODULE Spec2Model ----
(***************************************************************************)
(* CineBase: the movies table and its storage constraints, the Movie       *)
(* display properties, the health aggregator and the cache facade.         *)
(***************************************************************************)
EXTENDS Integers, Sequences, FiniteSets, TLC

VARIABLES
    movies,     \* the movies table: row id -> row, or NoRow
    users,      \* the users table: row id -> row, or NoRow
    dbLast,     \* outcome of the last write the storage layer processed
    movie,      \* a Movie object whose display properties are read
    shown,      \* the last display property read and what it gave
    dbDep,      \* what the database does when a session is asked for and queried
    redisDep,   \* what the Redis server does when pinged
    tmdbKey,    \* settings.tmdb_api_key
    tmdbDep,    \* what the TMDB API does when requested
    probe,      \* GET /health/: each probe's position and what gather has of it
    contacted,  \* the TMDB API was requested
    hresp,      \* GET /health/: the response, once sent
    redisClient,\* the Redis client of check_redis and its connection
    answer,     \* the last answer of /health/simple, /health/ready or /health/live
    store,      \* the Redis keyspace: key -> value and remaining TTL, or NoKey
    now,        \* the clock
    req,        \* the cache requests in flight or answered, per client
    started     \* cache requests started so far

dbVars == <<movies, users, dbLast>>

movieVars == <<movie, shown>>

healthVars == <<dbDep, redisDep, tmdbKey, tmdbDep, probe, contacted, hresp, redisClient, answer>>

cacheVars == <<store, now, req, started>>

vars == <<dbVars, movieVars, healthVars, cacheVars>>

----------------------------------------------------------------------------
(* Optional column values: NULL is the empty tuple, a value v is <<v>>.    *)

NULL == <<>>

Some(v) == <<v>>

IsNull(o) == o = NULL

Val(o) == o[1]

\* Strings whose content does not matter are kept run-length encoded:
\* Rep(c, n) is the string of n copies of the character c.
Rep(c, n) == [ch |-> c, n |-> n]

\* SQL length()
length(s) == s.n

----------------------------------------------------------------------------
(* Storage layer: table movies                                             *)

MaxRows == 2

YearMin == 1888

YearMax == 2030

TitleMax == 255

RowIds == 1..MaxRows

NoRow == [absent |-> TRUE]

TmdbIds == {NULL, Some(1)}

Years == {NULL, Some(YearMin - 1), Some(YearMin), Some(YearMax), Some(YearMax + 1)}

Titles == {NULL, Some(Rep("x", 0)), Some(Rep("x", TitleMax)), Some(Rep("x", TitleMax + 1))}

\* the values a write may carry for the constrained columns (is_custom is
\* never NULL: the column default False fills it in)
MovieWrites ==
    [tmdb_id : TmdbIds, is_custom : BOOLEAN, year : Years, title : Titles]

\* CheckConstraint movies_year_range_check
movies_year_range_check(row) ==
    IsNull(row.year) \/ (Val(row.year) >= YearMin /\ Val(row.year) <= YearMax)

\* CheckConstraint movies_title_not_empty
movies_title_not_empty(row) ==
    IsNull(row.title) \/ length(Val(row.title)) > 0

\* CheckConstraint movies_title_length_check
movies_title_length_check(row) ==
    IsNull(row.title) \/ length(Val(row.title)) <= TitleMax

\* the constraint left out of the table definition
movies_tmdb_or_custom_dropped(row) == TRUE

\* CheckConstraint movies_tmdb_or_custom_check
movies_tmdb_or_custom_check(row) ==
    (~IsNull(row.tmdb_id)) \/ (row.is_custom = TRUE)

\* unique index ix_movies_tmdb_id: NULLs never collide
ix_movies_tmdb_id(tbl, id, row) ==
    IsNull(row.tmdb_id)
    \/ \A j \in RowIds \ {id} : tbl[j] = NoRow \/ tbl[j].tmdb_id # row.tmdb_id

\* the first constraint the write violates, "none" when it is accepted
MovieViolation(tbl, id, row) ==
    IF ~movies_year_range_check(row) THEN "movies_year_range_check"
    ELSE IF ~movies_title_not_empty(row) THEN "movies_title_not_empty"
    ELSE IF ~movies_title_length_check(row) THEN "movies_title_length_check"
    ELSE IF ~movies_tmdb_or_custom_check(row) THEN "movies_tmdb_or_custom_check"
    ELSE IF ~ix_movies_tmdb_id(tbl, id, row) THEN "ix_movies_tmdb_id"
    ELSE "none"

\* the statement is applied when no constraint fails, and rolled back otherwise
WriteMovie(op, id, row) ==
    LET v == MovieViolation(movies, id, row) IN
    /\ movies' = IF v = "none" THEN [movies EXCEPT ![id] = row] ELSE movies
    /\ dbLast' = [op |-> op, error |-> v]
    /\ UNCHANGED users
    /\ UNCHANGED <<movieVars, healthVars, cacheVars>>

\* INSERT INTO movies
InsertMovie ==
    \E id \in RowIds, row \in MovieWrites :
        /\ movies[id] = NoRow
        /\ \A j \in RowIds : j < id => movies[j] # NoRow
        /\ WriteMovie("insert", id, row)

\* UPDATE movies SET ... WHERE id = :id
UpdateMovie ==
    \E id \in RowIds, row \in MovieWrites :
        /\ movies[id] # NoRow
        /\ WriteMovie("update", id, row)

NoWrite == [op |-> "none", error |-> "none"]

----------------------------------------------------------------------------
(* Storage layer: table users                                              *)

MaxUsers == 2

UserIds == 1..MaxUsers

Emails == {NULL, Some(Rep("x", 0)), Some(Rep("a", 1)), Some(Rep("b", 1))}

PasswordHashes == {NULL, Some(Rep("x", 0)), Some(Rep("h", 1))}

Roles == {NULL, Some("user"), Some("admin"), Some("guest")}

UserWrites == [email : Emails, password_hash : PasswordHashes, role : Roles]

\* nullable=False on email, password_hash and role
users_not_null(row) ==
    ~IsNull(row.email) /\ ~IsNull(row.password_hash) /\ ~IsNull(row.role)

\* a check that lets any role through
users_role_check_dropped(row) == TRUE

\* CheckConstraint users_role_check; a CHECK passes on NULL
users_role_check(row) ==
    IsNull(row.role) \/ Val(row.role) \in {"user", "admin"}

\* CheckConstraint users_email_not_empty
users_email_not_empty(row) ==
    IsNull(row.email) \/ length(Val(row.email)) > 0

\* CheckConstraint users_password_hash_not_empty
users_password_hash_not_empty(row) ==
    IsNull(row.password_hash) \/ length(Val(row.password_hash)) > 0

\* unique index ix_users_email
ix_users_email(tbl, id, row) ==
    IsNull(row.email)
    \/ \A j \in UserIds \ {id} : tbl[j] = NoRow \/ tbl[j].email # row.email

\* the first constraint the write violates, "none" when it is accepted
UserViolation(tbl, id, row) ==
    IF ~users_not_null(row) THEN "users_not_null"
    ELSE IF ~users_role_check(row) THEN "users_role_check"
    ELSE IF ~users_email_not_empty(row) THEN "users_email_not_empty"
    ELSE IF ~users_password_hash_not_empty(row) THEN "users_password_hash_not_empty"
    ELSE IF ~ix_users_email(tbl, id, row) THEN "ix_users_email"
    ELSE "none"

WriteUser(op, id, row) ==
    LET v == UserViolation(users, id, row) IN
    /\ users' = IF v = "none" THEN [users EXCEPT ![id] = row] ELSE users
    /\ dbLast' = [op |-> op, error |-> v]
    /\ UNCHANGED movies
    /\ UNCHANGED <<movieVars, healthVars, cacheVars>>

\* INSERT INTO users
InsertUser ==
    \E id \in UserIds, row \in UserWrites :
        /\ users[id] = NoRow
        /\ \A j \in UserIds : j < id => users[j] # NoRow
        /\ WriteUser("insert", id, row)

\* UPDATE users SET ... WHERE id = :id
UpdateUser ==
    \E id \in UserIds, row \in UserWrites :
        /\ users[id] # NoRow
        /\ WriteUser("update", id, row)

----------------------------------------------------------------------------
(* Python values, as the Movie properties meet them: a column value or a   *)
(* piece of the JSON snapshot: a pair <<type, content>>.  A string is its  *)
(* sequence of characters, a dict a function from keys (strings) to values.*)

PyNone == <<"none", 0>>

PyBool(b) == <<"bool", b>>

PyInt(n) == <<"int", n>>

PyStr(s) == <<"str", s>>

PyList(l) == <<"list", l>>

PyDict(d) == <<"dict", d>>

\* how an expression ends: with a value, or raising an exception
Ret(v) == [kind |-> "return", v |-> v]

Raise(e) == [kind |-> "raise", v |-> <<"exc", e>>]

Raised(r, e) == r.kind = "raise" /\ r.v[2] = e

\* bool(v)
Truthy(v) ==
    CASE v[1] = "none" -> FALSE
      [] v[1] = "bool" -> v[2]
      [] v[1] = "int" -> v[2] # 0
      [] v[1] = "str" -> Len(v[2]) > 0
      [] v[1] = "list" -> Len(v[2]) > 0
      [] v[1] = "dict" -> DOMAIN v[2] # {}

\* key in c, for a string key
Contains(key, c) ==
    CASE c[1] = "dict" -> Ret(PyBool(key \in DOMAIN c[2]))
      [] c[1] = "list" -> Ret(PyBool(\E i \in 1..Len(c[2]) : c[2][i] = PyStr(key)))
      [] c[1] = "str" ->
            Ret(PyBool(\E i \in 1..(Len(c[2]) + 1) :
                          /\ i + Len(key) - 1 <= Len(c[2])
                          /\ SubSeq(c[2], i, i + Len(key) - 1) = key))
      [] OTHER -> Raise("TypeError")

\* c[key], for a string key
GetItem(c, key) ==
    CASE c[1] = "dict" -> IF key \in DOMAIN c[2] THEN Ret(c[2][key]) ELSE Raise("KeyError")
      [] OTHER -> Raise("TypeError")

\* v[:n]
SliceTo(v, n) ==
    CASE v[1] = "str" -> Ret(PyStr(SubSeq(v[2], 1, IF Len(v[2]) < n THEN Len(v[2]) ELSE n)))
      [] v[1] = "list" -> Ret(PyList(SubSeq(v[2], 1, IF Len(v[2]) < n THEN Len(v[2]) ELSE n)))
      [] OTHER -> Raise("TypeError")

Digits == <<"0", "1", "2", "3", "4", "5", "6", "7", "8", "9">>

IsDigit(c) == \E i \in 1..10 : Digits[i] = c

DigitVal(c) == (CHOOSE i \in 1..10 : Digits[i] = c) - 1

\* str.strip() of the blanks int() skips
RECURSIVE LStrip(_)
LStrip(s) == IF s # <<>> /\ Head(s) = " " THEN LStrip(Tail(s)) ELSE s

RECURSIVE RStrip(_)
RStrip(s) == IF s # <<>> /\ s[Len(s)] = " " THEN RStrip(SubSeq(s, 1, Len(s) - 1)) ELSE s

\* the digits of an integer literal, underscores skipped
RECURSIVE DigitsValue(_, _)
DigitsValue(s, acc) ==
    IF s = <<>> THEN acc
    ELSE IF Head(s) = "_" THEN DigitsValue(Tail(s), acc)
    ELSE DigitsValue(Tail(s), 10 * acc + DigitVal(Head(s)))

\* digits, with single underscores between them
IsIntLiteral(s) ==
    /\ s # <<>>
    /\ IsDigit(s[1]) /\ IsDigit(s[Len(s)])
    /\ \A i \in 1..Len(s) : IsDigit(s[i]) \/ s[i] = "_"
    /\ \A i \in 1..(Len(s) - 1) : ~(s[i] = "_" /\ s[i + 1] = "_")

\* int("...")
ParseInt(s) ==
    LET t == RStrip(LStrip(s))
        signed == t # <<>> /\ Head(t) \in {"+", "-"}
        body == IF signed THEN Tail(t) ELSE t
    IN  IF IsIntLiteral(body)
        THEN Ret(PyInt(IF signed /\ Head(t) = "-"
                       THEN 0 - DigitsValue(body, 0) ELSE DigitsValue(body, 0)))
        ELSE Raise("ValueError")

\* int(v)
int(v) ==
    CASE v[1] = "str" -> ParseInt(v[2])
      [] v[1] = "int" -> Ret(v)
      [] v[1] = "bool" -> Ret(PyInt(IF v[2] THEN 1 ELSE 0))
      [] OTHER -> Raise("TypeError")

RECURSIVE NatChars(_)
NatChars(n) == IF n < 10 THEN <<Digits[n + 1]>> ELSE NatChars(n \div 10) \o <<Digits[(n % 10) + 1]>>

\* str(v), as an f-string formats a string, None or an integer
str(v) ==
    CASE v[1] = "str" -> v[2]
      [] v[1] = "none" -> <<"N", "o", "n", "e">>
      [] v[1] = "bool" -> IF v[2] THEN <<"T", "r", "u", "e">> ELSE <<"F", "a", "l", "s", "e">>
      [] v[1] = "int" -> IF v[2] < 0 THEN <<"-">> \o NatChars(0 - v[2]) ELSE NatChars(v[2])

----------------------------------------------------------------------------
(* Movie display properties                                                *)

K_title == <<"t", "i", "t", "l", "e">>

K_release_date == <<"r", "e", "l", "e", "a", "s", "e", "_", "d", "a", "t", "e">>

K_overview == <<"o", "v", "e", "r", "v", "i", "e", "w">>

K_genres == <<"g", "e", "n", "r", "e", "s">>

K_name == <<"n", "a", "m", "e">>

K_poster_path == <<"p", "o", "s", "t", "e", "r", "_", "p", "a", "t", "h">>

K_id == <<"i", "d">>

UnknownTitle == <<"U", "n", "k", "n", "o", "w", "n", " ", "T", "i", "t", "l", "e">>

MediaPosters == <<"/", "m", "e", "d", "i", "a", "/", "p", "o", "s", "t", "e", "r", "s", "/">>

TmdbImageW500 == <<"h", "t", "t", "p", "s", ":", "/", "/", "i", "m", "a", "g", "e", ".", "t", "m", "d", "b", ".", "o", "r", "g", "/", "t", "/", "p", "/", "w", "5", "0", "0">>

\* self.tmdb_snapshot and key in self.tmdb_snapshot, as an if tests it
SnapshotHas(m, key) ==
    IF Truthy(m.tmdb_snapshot) THEN Contains(key, m.tmdb_snapshot) ELSE Ret(PyBool(FALSE))

display_title_snapshot_first(m) ==
    LET has == SnapshotHas(m, K_title) IN
    IF has.kind = "raise" THEN has
    ELSE IF has.v[2] THEN GetItem(m.tmdb_snapshot, K_title)
    ELSE IF Truthy(m.title) THEN Ret(m.title)
    ELSE Ret(PyStr(UnknownTitle))

display_title(m) ==
    IF Truthy(m.title) THEN Ret(m.title)
    ELSE LET has == SnapshotHas(m, K_title) IN
         IF has.kind = "raise" THEN has
         ELSE IF has.v[2] THEN GetItem(m.tmdb_snapshot, K_title)
         ELSE Ret(PyStr(UnknownTitle))

\* the release date parsed whole, not its first four characters
ReleaseYear_unsliced(m) ==
    LET d == GetItem(m.tmdb_snapshot, K_release_date) IN
    IF d.kind = "raise" THEN d ELSE int(d.v)

\* int(self.tmdb_snapshot["release_date"][:4])
ReleaseYear(m) ==
    LET d == GetItem(m.tmdb_snapshot, K_release_date) IN
    IF d.kind = "raise" THEN d
    ELSE LET head == SliceTo(d.v, 4) IN
         IF head.kind = "raise" THEN head ELSE int(head.v)

display_year(m) ==
    IF Truthy(m.year) THEN Ret(m.year)
    ELSE LET has == SnapshotHas(m, K_release_date) IN
         IF has.kind = "raise" THEN has
         ELSE IF has.v[2]
              THEN LET y == ReleaseYear(m) IN
                   IF Raised(y, "ValueError") \/ Raised(y, "TypeError")
                   THEN Ret(PyNone) ELSE y
              ELSE Ret(PyNone)

display_overview(m) ==
    IF Truthy(m.overview) THEN Ret(m.overview)
    ELSE LET has == SnapshotHas(m, K_overview) IN
         IF has.kind = "raise" THEN has
         ELSE IF has.v[2] THEN GetItem(m.tmdb_snapshot, K_overview)
         ELSE Ret(PyStr(<<>>))

RECURSIVE SetToSeq(_)
SetToSeq(S) == IF S = {} THEN <<>> ELSE LET x == CHOOSE x \in S : TRUE IN <<x>> \o SetToSeq(S \ {x})

\* the elements a for loop draws from v
Iterate(v) ==
    CASE v[1] = "list" -> Ret(v[2])
      [] v[1] = "str" -> Ret([i \in 1..Len(v[2]) |-> PyStr(<<v[2][i]>>)])
      [] v[1] = "dict" -> Ret([i \in 1..Cardinality(DOMAIN v[2]) |-> PyStr(SetToSeq(DOMAIN v[2])[i])])
      [] OTHER -> Raise("TypeError")

\* [genre["name"] for genre in items]
RECURSIVE GenreNames(_)
GenreNames(items) ==
    IF items = <<>> THEN Ret(PyList(<<>>))
    ELSE LET n == GetItem(Head(items), K_name) IN
         IF n.kind = "raise" THEN n
         ELSE LET rest == GenreNames(Tail(items)) IN
              IF rest.kind = "raise" THEN rest
              ELSE Ret(PyList(<<n.v>> \o rest.v[2]))

display_genres(m) ==
    IF Truthy(m.genres) THEN Ret(m.genres)
    ELSE LET has == SnapshotHas(m, K_genres) IN
         IF has.kind = "raise" THEN has
         ELSE IF has.v[2]
              THEN LET g == GetItem(m.tmdb_snapshot, K_genres) IN
                   IF g.kind = "raise" THEN g
                   ELSE LET items == Iterate(g.v) IN
                        IF items.kind = "raise" THEN items ELSE GenreNames(items.v)
              ELSE Ret(PyList(<<>>))

poster_url(m) ==
    IF Truthy(m.custom_poster_path)
    THEN Ret(PyStr(MediaPosters \o str(m.custom_poster_path)))
    ELSE LET has == SnapshotHas(m, K_poster_path) IN
         IF has.kind = "raise" THEN has
         ELSE IF has.v[2]
              THEN LET p == GetItem(m.tmdb_snapshot, K_poster_path) IN
                   IF p.kind = "raise" THEN p ELSE Ret(PyStr(TmdbImageW500 \o str(p.v)))
              ELSE Ret(PyNone)

(* The Movies whose properties are read.  year is None or a year the       *)
(* storage layer accepts (movies_year_range_check); the other overrides    *)
(* may be None, empty or set.                                              *)

S_Local == <<"L", "o", "c", "a", "l">>

S_Snap == <<"S", "n", "a", "p">>

S_Drama == <<"D", "r", "a", "m", "a">>

S_War == <<"W", "a", "r">>

S_a_jpg == <<"a", ".", "j", "p", "g">>

S_p_jpg == <<"/", "p", ".", "j", "p", "g">>

D_iso == <<"2", "0", "1", "9", "-", "0", "5", "-", "0", "1">>

D_bad == <<"b", "a", "d">>

D_empty == <<>>

D_short == <<"2", "0", "1">>

D_two_digit == <<"1", "9", "-", "0", "5", "-", "0", "1">>

D_signed == <<"-", "1", "2">>

D_blank == <<" ", "7">>

D_underscore == <<"1", "_", "0", "0", "-", "0", "1">>

ReleaseDates == {D_iso, D_bad, D_empty, D_short, D_two_digit, D_signed, D_blank, D_underscore}

Genre(id, name) == PyDict(K_id :> PyInt(id) @@ K_name :> PyStr(name))

WellFormedSnapshot ==
    PyDict(K_title :> PyStr(S_Snap) @@ K_release_date :> PyStr(D_iso)
           @@ K_overview :> PyStr(S_Snap)
           @@ K_genres :> PyList(<<Genre(18, S_Drama), Genre(10752, S_War)>>)
           @@ K_poster_path :> PyStr(S_p_jpg))

SnapshotKeys == {K_title, K_release_date, K_overview, K_genres, K_poster_path}

Snapshots ==
    {PyNone, PyDict(<<>>), WellFormedSnapshot,
     \* missing fields
     PyDict(K_title :> PyStr(S_Snap)),
     \* null field values
     PyDict([k \in SnapshotKeys |-> PyNone]),
     \* fields of the wrong type
     PyDict(K_title :> PyInt(7) @@ K_release_date :> PyInt(2019)
            @@ K_overview :> PyList(<<>>) @@ K_genres :> PyStr(S_Drama)
            @@ K_poster_path :> PyInt(7)),
     \* genres whose elements lack a name, or are no objects
     PyDict(K_genres :> PyList(<<PyDict(K_id :> PyInt(18))>>)),
     PyDict(K_genres :> PyList(<<PyStr(S_Drama)>>)),
     PyDict(K_genres :> PyList(<<>>)),
     PyDict(K_release_date :> PyList(<<PyStr(<<"2">>), PyStr(<<"0">>)>>)),
     \* a snapshot that is no JSON object
     PyInt(5), PyList(<<PyStr(K_title)>>)}
    \cup {PyDict(K_release_date :> PyStr(d)) : d \in ReleaseDates}

Movies ==
    [title : {PyNone, PyStr(<<>>), PyStr(S_Local)},
     year : {PyNone, PyInt(YearMin), PyInt(YearMax)},
     overview : {PyNone, PyStr(<<>>), PyStr(S_Local)},
     genres : {PyNone, PyList(<<>>), PyList(<<PyStr(S_Local)>>)},
     custom_poster_path : {PyNone, PyStr(<<>>), PyStr(S_a_jpg)},
     tmdb_snapshot : Snapshots]

\* reading property prop of the Movie
Read(prop, out) ==
    /\ shown' = [prop |-> prop, out |-> out]
    /\ UNCHANGED <<dbVars, movie, healthVars, cacheVars>>

ReadDisplayTitle == Read("display_title", display_title(movie))

ReadDisplayYear == Read("display_year", display_year(movie))

ReadDisplayOverview == Read("display_overview", display_overview(movie))

ReadDisplayGenres == Read("display_genres", display_genres(movie))

ReadPosterUrl == Read("poster_url", poster_url(movie))

NotRead == [prop |-> "none", out |-> Ret(PyNone)]

----------------------------------------------------------------------------
(* Health aggregator                                                       *)

Probes == {"database", "redis", "tmdb"}

ProbeStatuses == {"healthy", "unhealthy", "warning"}

\* get_db() and the query: the session answers; the row fetchone() gives
\* cannot be awaited; the connection fails; get_db() yields no session
DbOutcomes == {"up", "fetchone_not_awaitable", "connect_error", "no_session"}

\* the server answers the ping; it refuses the connection; it accepts the
\* connection and answers the ping with an error (NOAUTH, LOADING)
RedisOutcomes == {"up", "down", "ping_error"}

TmdbOutcomes == {"up", "unreachable", "timeout", "http_error"}

TmdbKeyPlaceholder == "your-tmdb-api-key-here"

TmdbKeys == {"", TmdbKeyPlaceholder, "secret"}

\* what gather holds for a probe: the dict it returned, None, or an exception
\* it raised; a message is a fixed text followed by the error's text
Result(status, text, err) == [kind |-> "dict", status |-> status, message |-> <<text, err>>]

NoneResult == [kind |-> "none", status |-> "", message |-> <<"", "">>]

Exception(err) == [kind |-> "exception", status |-> "", message |-> <<"", err>>]

Pending == [kind |-> "pending", status |-> "", message |-> <<"", "">>]

check_database(dep) ==
    CASE dep = "up" -> Result("healthy", "Database connection successful", "")
      [] dep = "no_session" -> NoneResult
      [] OTHER -> Result("unhealthy", "Database connection failed: ", dep)

check_redis(dep) ==
    IF dep = "up" THEN Result("healthy", "Redis connection successful", "")
    ELSE Result("unhealthy", "Redis connection failed: ", dep)

TmdbConfigured(key) == ~(key = "" \/ key = TmdbKeyPlaceholder)

\* a failing request reported like the other probes' failures
check_tmdb_unhealthy(key, dep) ==
    IF ~TmdbConfigured(key) THEN Result("warning", "TMDB API key not configured", "")
    ELSE IF dep = "up" THEN Result("healthy", "TMDB API connection successful", "")
    ELSE Result("unhealthy", "TMDB API connection failed: ", dep)

check_tmdb(key, dep) ==
    IF ~TmdbConfigured(key) THEN Result("warning", "TMDB API key not configured", "")
    ELSE IF dep = "up" THEN Result("healthy", "TMDB API connection successful", "")
    ELSE Result("warning", "TMDB API connection failed: ", dep)

\* checks: a probe's exception becomes an unhealthy entry
Checks(outs) ==
    [p \in Probes |->
        IF outs[p].kind = "exception"
        THEN Result("unhealthy", "", outs[p].message[2]) ELSE outs[p]]

\* the reduction testing for warnings before failures
health_check_warning_first(outs) ==
    LET checks == Checks(outs)
        unhealthy_checks == {p \in Probes : checks[p].status = "unhealthy"}
        warning_checks == {p \in Probes : checks[p].status = "warning"}
    IN  IF \E p \in Probes : checks[p].kind = "none"
        THEN [code |-> 500, status |-> "Internal Server Error", checks |-> checks]
        ELSE IF warning_checks # {}
        THEN [code |-> 200, status |-> "degraded", checks |-> checks]
        ELSE IF unhealthy_checks # {}
        THEN [code |-> 503, status |-> "unhealthy", checks |-> checks]
        ELSE [code |-> 200, status |-> "healthy", checks |-> checks]

\* the response of GET /health/ to what gather returned; check["status"] on a
\* None entry raises TypeError, which nothing catches
health_check(outs) ==
    LET checks == Checks(outs)
        unhealthy_checks == {p \in Probes : checks[p].status = "unhealthy"}
        warning_checks == {p \in Probes : checks[p].status = "warning"}
    IN  IF \E p \in Probes : checks[p].kind = "none"
        THEN [code |-> 500, status |-> "Internal Server Error", checks |-> checks]
        ELSE IF unhealthy_checks # {}
        THEN [code |-> 503, status |-> "unhealthy", checks |-> checks]
        ELSE IF warning_checks # {}
        THEN [code |-> 200, status |-> "degraded", checks |-> checks]
        ELSE [code |-> 200, status |-> "healthy", checks |-> checks]

NoResponse == [code |-> 0, status |-> "", checks |-> [p \in Probes |-> Pending]]

\* asyncio.gather starts a probe
StartProbe ==
    \E p \in Probes :
        /\ probe[p].pc = "pending"
        /\ probe' = [probe EXCEPT ![p].pc = "running"]
        /\ UNCHANGED <<dbDep, redisDep, tmdbKey, tmdbDep, contacted, hresp, redisClient, answer>>
        /\ UNCHANGED <<dbVars, movieVars, cacheVars>>

Finish(p, out) ==
    /\ probe[p].pc = "running"
    /\ probe' = [probe EXCEPT ![p] = [pc |-> "done", out |-> out]]
    /\ UNCHANGED <<dbDep, redisDep, tmdbKey, tmdbDep, hresp, answer>>
    /\ UNCHANGED <<dbVars, movieVars, cacheVars>>

CheckDatabase ==
    /\ Finish("database", check_database(dbDep))
    /\ UNCHANGED <<contacted, redisClient>>

\* the client check_redis leaves behind: redis.from_url() connects on the
\* first command; close() is reached only when the ping succeeds
check_redis_client(dep) ==
    CASE dep = "up" -> "closed"
      [] dep = "down" -> "unconnected"
      [] OTHER -> "open"

CheckRedis ==
    /\ Finish("redis", check_redis(redisDep))
    /\ redisClient' = check_redis_client(redisDep)
    /\ UNCHANGED contacted

CheckTmdb ==
    /\ Finish("tmdb", check_tmdb(tmdbKey, tmdbDep))
    /\ contacted' = TmdbConfigured(tmdbKey)
    /\ UNCHANGED redisClient

\* gather has returned: the checks are reduced and the response is sent
HealthCheck ==
    /\ \A p \in Probes : probe[p].pc = "done"
    /\ hresp = NoResponse
    /\ hresp' = health_check([p \in Probes |-> probe[p].out])
    /\ UNCHANGED <<dbDep, redisDep, tmdbKey, tmdbDep, probe, contacted, redisClient, answer>>
    /\ UNCHANGED <<dbVars, movieVars, cacheVars>>

(* GET /health/simple, /health/ready and /health/live *)

NoAnswer == [status |-> "", message |-> "", code |-> 0, endpoint |-> "none", checked |-> {}]

\* the state of the dependencies a handler runs in
Dependencies == [database |-> dbDep, redis |-> redisDep, tmdb |-> tmdbDep]

simple_health_check(deps) ==
    [NoAnswer EXCEPT !.endpoint = "simple", !.code = 200, !.status = "healthy"]

\* a readiness that pings Redis as well
readiness_check_with_redis(deps) ==
    IF deps.database = "connect_error" \/ deps.redis # "up"
    THEN [NoAnswer EXCEPT !.endpoint = "ready", !.code = 503, !.status = "not_ready",
                          !.message = IF deps.database = "connect_error"
                                      THEN deps.database ELSE deps.redis,
                          !.checked = {"database", "redis"}]
    ELSE [NoAnswer EXCEPT !.endpoint = "ready", !.code = 200, !.status = "ready",
                          !.message = "Application is ready to serve requests",
                          !.checked = {"database", "redis"}]

\* SELECT 1 on the first session get_db() yields; the result is not fetched,
\* and without a session the loop body does not run
readiness_check(deps) ==
    IF deps.database = "connect_error"
    THEN [NoAnswer EXCEPT !.endpoint = "ready", !.code = 503, !.status = "not_ready",
                          !.message = deps.database, !.checked = {"database"}]
    ELSE [NoAnswer EXCEPT !.endpoint = "ready", !.code = 200, !.status = "ready",
                          !.message = "Application is ready to serve requests",
                          !.checked = {"database"}]

liveness_check(deps) ==
    [NoAnswer EXCEPT !.endpoint = "live", !.code = 200, !.status = "alive",
                     !.message = "Application is alive"]

Answer(a) ==
    /\ answer' = a
    /\ UNCHANGED <<dbDep, redisDep, tmdbKey, tmdbDep, probe, contacted, hresp, redisClient>>
    /\ UNCHANGED <<dbVars, movieVars, cacheVars>>

SimpleHealthCheck == Answer(simple_health_check(Dependencies))

ReadinessCheck == Answer(readiness_check(Dependencies))

LivenessCheck == Answer(liveness_check(Dependencies))

----------------------------------------------------------------------------
(* Cache facade over Redis                                                 *)

MaxRequests == 3

MaxTicks == 2

TickSeconds == 30

TestTtl == 60

Clients == {"a", "b"}

Times == 0..(MaxTicks * TickSeconds)

test_key == <<"c", "i", "n", "e", "b", "a", "s", "e", ":", "t", "e", "s", "t", ":", "c", "a", "c", "h", "e">>

MovieKey == <<"c", "i", "n", "e", "b", "a", "s", "e", ":", "m", "o", "v", "i", "e", ":", "1">>

SessionKey == <<"s", "e", "s", "s", "i", "o", "n", ":", "1">>

NearKey == <<"c", "i", "n", "e", "b", "a", "s", "e", "_", "o", "l", "d", ":", "1">>

Keys == {test_key, MovieKey, SessionKey, NearKey}

CinebasePattern == <<"c", "i", "n", "e", "b", "a", "s", "e", ":", "*">>

LoosePattern == <<"c", "i", "n", "e", "b", "a", "s", "e", "*">>

NoKey == [present |-> FALSE, val |-> <<>>, ttl |-> 0]

Entry(val, ttl) == [present |-> TRUE, val |-> val, ttl |-> ttl]

\* glob-style matching of KEYS, for patterns of characters and *
RECURSIVE GlobMatch(_, _)
GlobMatch(pat, s) ==
    IF pat = <<>> THEN s = <<>>
    ELSE IF Head(pat) = "*"
    THEN GlobMatch(Tail(pat), s) \/ (s # <<>> /\ GlobMatch(pat, Tail(s)))
    ELSE s # <<>> /\ Head(s) = Head(pat) /\ GlobMatch(Tail(pat), Tail(s))

\* a listing that ignores the pattern
keys_unfiltered(st, pat) == {k \in Keys : st[k].present}

\* KEYS pattern
keys(st, pat) == {k \in Keys : st[k].present /\ GlobMatch(pat, k)}

cinebase_keys_loose(st) == keys(st, LoosePattern)

\* redis_client.keys("cinebase:*")
cinebase_keys(st) == keys(st, CinebasePattern)

\* TTL key: -2 without the key, -1 without an expiry
ttl(st, k) == IF st[k].present THEN st[k].ttl ELSE 0 - 2

\* SETEX key seconds value
setex(st, k, seconds, val) == [st EXCEPT ![k] = Entry(val, seconds)]

\* DEL key ...
delete(st, ks) == [k \in Keys |-> IF k \in ks THEN NoKey ELSE st[k]]

\* the time that passes expires the keys whose TTL runs out
Expire(st, seconds) ==
    [k \in Keys |->
        IF st[k].present /\ st[k].ttl > 0
        THEN IF st[k].ttl <= seconds THEN NoKey
             ELSE [st[k] EXCEPT !.ttl = st[k].ttl - seconds]
        ELSE st[k]]

\* test_data; the clock reading stands for the timestamp and the test id
TestData(t) ==
    [message |-> "Hello from CineBase+ cache!", timestamp |-> NatChars(t),
     version |-> "1.0.0", test_id |-> t]

NoData == [message |-> "", timestamp |-> <<>>, version |-> "", test_id |-> 0 - 1]

\* json.dumps: the members in order, each with its type and text
json_dumps(d) ==
    << <<"message", "str", <<d.message>> >>,
       <<"timestamp", "str", d.timestamp>>,
       <<"version", "str", <<d.version>> >>,
       <<"test_id", "int", NatChars(d.test_id)>> >>

Member(text, name) == text[CHOOSE i \in 1..Len(text) : text[i][1] = name]

\* a parse that keeps the number's digits as text
json_loads_text(text) ==
    [message |-> Member(text, "message")[3][1],
     timestamp |-> Member(text, "timestamp")[3],
     version |-> Member(text, "version")[3][1],
     test_id |-> Len(Member(text, "test_id")[3])]

\* json.loads
json_loads(text) ==
    [message |-> Member(text, "message")[3][1],
     timestamp |-> Member(text, "timestamp")[3],
     version |-> Member(text, "version")[3][1],
     test_id |-> DigitsValue(Member(text, "test_id")[3], 0)]

NoResp ==
    [code |-> 0, detail |-> <<"", "">>, test_data |-> NoData, ttl_seconds |-> 0,
     deleted_keys |-> 0, keys |-> <<>>, cinebase_keys_count |-> 0, total_keys |-> 0]

Idle ==
    [op |-> "none", pc |-> "idle", client |-> "none", data |-> NoData, clean |-> TRUE,
     got |-> <<>>, listed |-> <<>>, i |-> 0, info |-> 0, exc |-> "none", resp |-> NoResp]

\* the handler is entered: get_redis_client() gives it a client
Start(r, op, pc, data) ==
    /\ req[r].pc \in {"idle", "done"}
    /\ started < MaxRequests
    /\ started' = started + 1
    /\ req' = [req EXCEPT ![r] = [Idle EXCEPT !.op = op, !.pc = pc, !.client = "open",
                                              !.data = data]]
    /\ UNCHANGED <<store, now>>
    /\ UNCHANGED <<dbVars, movieVars, healthVars>>

\* the handler returns or raises; finally closes the client
Respond(rq, resp) == [rq EXCEPT !.pc = "done", !.client = "closed", !.resp = resp]

FailedPrefix(op) ==
    CASE op = "test" -> "Cache test failed: "
      [] op = "stats" -> "Cache stats failed: "
      [] op = "clear" -> "Cache clear failed: "
      [] op = "keys" -> "List cache keys failed: "

\* a detail that leaves the reason out
Failed_without_reason(rq, err) ==
    Respond(rq, [NoResp EXCEPT !.code = 500, !.detail = <<FailedPrefix(rq.op), "">>])

\* except Exception as e: HTTPException(500, detail=prefix + str(e))
Failed(rq, err) == Respond(rq, [NoResp EXCEPT !.code = 500, !.detail = <<FailedPrefix(rq.op), err>>])

\* the test requests, other than r, whose key is touched between their write
\* and their reads
Touched(rs, r) ==
    [q \in Clients |->
        IF q # r /\ rs[q].op = "test" /\ rs[q].pc \in {"get", "ttl"}
        THEN [rs[q] EXCEPT !.clean = FALSE] ELSE rs[q]]

Frame == UNCHANGED <<now, started>> /\ UNCHANGED <<dbVars, movieVars, healthVars>>

\* a Redis call of the request fails (connection refused, timeout)
StoreError ==
    \E r \in Clients :
        /\ req[r].pc \notin {"idle", "done"}
        /\ req' = [req EXCEPT ![r] = [Failed(req[r], "Connection refused")
                                         EXCEPT !.exc = "ConnectionError"]]
        /\ UNCHANGED store
        /\ Frame

(* GET /cache/test *)

TestStart == \E r \in Clients : Start(r, "test", "setex", TestData(now))

TestSetex ==
    \E r \in Clients :
        /\ req[r].op = "test" /\ req[r].pc = "setex"
        /\ store' = setex(store, test_key, TestTtl, json_dumps(req[r].data))
        /\ req' = [Touched(req, r) EXCEPT ![r].pc = "get"]
        /\ Frame

\* str() of HTTPException(500, "Failed to retrieve cached data"): the status
\* and the detail where the framework's exception defines __str__, the empty
\* string where it does not
HTTPExceptionStr == {"500: Failed to retrieve cached data", ""}

TestGet ==
    \E r \in Clients, text \in HTTPExceptionStr :
        /\ req[r].op = "test" /\ req[r].pc = "get"
        /\ LET cached_data == store[test_key].val IN
           req' = [req EXCEPT ![r] =
                      IF store[test_key].present /\ cached_data # <<>>
                      THEN [req[r] EXCEPT !.pc = "ttl", !.got = cached_data]
                      ELSE [Failed(req[r], text)
                               EXCEPT !.exc = "HTTPException"]]
        /\ UNCHANGED store
        /\ Frame

TestTtlRead ==
    \E r \in Clients :
        /\ req[r].op = "test" /\ req[r].pc = "ttl"
        /\ req' = [req EXCEPT ![r] =
                      Respond(req[r], [NoResp EXCEPT !.code = 200,
                                                     !.test_data = json_loads(req[r].got),
                                                     !.ttl_seconds = ttl(store, test_key)])]
        /\ UNCHANGED store
        /\ Frame

(* GET /cache/stats *)

CountAll(st) == Cardinality({k \in Keys : st[k].present})

StatsStart == \E r \in Clients : Start(r, "stats", "info", NoData)

\* info() and info("memory"): db0.keys is remembered
StatsInfo ==
    \E r \in Clients :
        /\ req[r].op = "stats" /\ req[r].pc = "info"
        /\ req' = [req EXCEPT ![r].pc = "keyspace", ![r].info = CountAll(store)]
        /\ UNCHANGED store
        /\ Frame

\* info("keyspace"): db0 is listed when the database holds a key
StatsKeyspace ==
    \E r \in Clients :
        /\ req[r].op = "stats" /\ req[r].pc = "keyspace"
        /\ req' = [req EXCEPT ![r].pc = "keys",
                              ![r].info = IF CountAll(store) > 0 THEN req[r].info ELSE 0]
        /\ UNCHANGED store
        /\ Frame

StatsKeys ==
    \E r \in Clients :
        /\ req[r].op = "stats" /\ req[r].pc = "keys"
        /\ req' = [req EXCEPT ![r] =
                      Respond(req[r], [NoResp EXCEPT !.code = 200,
                                                     !.total_keys = req[r].info,
                                                     !.cinebase_keys_count =
                                                         Cardinality(cinebase_keys(store))])]
        /\ UNCHANGED store
        /\ Frame

(* POST /cache/clear *)

ClearStart == \E r \in Clients : Start(r, "clear", "keys", NoData)

ClearKeys ==
    \E r \in Clients :
        /\ req[r].op = "clear" /\ req[r].pc = "keys"
        /\ LET found == cinebase_keys(store) IN
           req' = [req EXCEPT ![r] =
                      IF found # {}
                      THEN [req[r] EXCEPT !.pc = "delete", !.listed = SetToSeq(found)]
                      ELSE Respond(req[r], [NoResp EXCEPT !.code = 200, !.deleted_keys = 0])]
        /\ UNCHANGED store
        /\ Frame

Range(f) == {f[i] : i \in DOMAIN f}

\* the count reported is the number of keys listed
deleted_count_listed(st, ks) == Cardinality(ks)

\* DEL answers the number of keys it removed
deleted_count(st, ks) == Cardinality({k \in ks : st[k].present})

ClearDelete ==
    \E r \in Clients :
        /\ req[r].op = "clear" /\ req[r].pc = "delete"
        /\ LET ks == Range(req[r].listed) IN
           /\ store' = delete(store, ks)
           /\ req' = [(IF test_key \in ks /\ store[test_key].present
                       THEN Touched(req, r) ELSE req)
                      EXCEPT ![r] = Respond(req[r], [NoResp EXCEPT
                                                        !.code = 200,
                                                        !.deleted_keys = deleted_count(store, ks)])]
        /\ Frame

(* GET /cache/keys *)

ListStart == \E r \in Clients : Start(r, "keys", "keys", NoData)

ListKeys ==
    \E r \in Clients :
        /\ req[r].op = "keys" /\ req[r].pc = "keys"
        /\ LET found == cinebase_keys(store) IN
           req' = [req EXCEPT ![r] =
                      IF found # {}
                      THEN [req[r] EXCEPT !.pc = "ttl", !.listed = SetToSeq(found), !.i = 1]
                      ELSE Respond(req[r], [NoResp EXCEPT !.code = 200])]
        /\ UNCHANGED store
        /\ Frame

\* one turn of the loop over the keys listed
ListTtl ==
    \E r \in Clients :
        /\ req[r].op = "keys" /\ req[r].pc = "ttl"
        /\ LET key == req[r].listed[req[r].i]
               keys_info == Append(req[r].resp.keys, [key |-> key, ttl_seconds |-> ttl(store, key)])
           IN  req' = [req EXCEPT ![r] =
                          IF req[r].i < Len(req[r].listed)
                          THEN [req[r] EXCEPT !.i = req[r].i + 1, !.resp.keys = keys_info]
                          ELSE Respond(req[r], [NoResp EXCEPT !.code = 200, !.keys = keys_info,
                                                              !.total_keys = Len(keys_info)])]
        /\ UNCHANGED store
        /\ Frame

(* the clock *)

Tick ==
    /\ now + TickSeconds \in Times
    /\ now' = now + TickSeconds
    /\ store' = Expire(store, TickSeconds)
    /\ req' = IF store[test_key].present /\ ~store'[test_key].present
              THEN Touched(req, "") ELSE req
    /\ UNCHANGED started
    /\ UNCHANGED <<dbVars, movieVars, healthVars>>

----------------------------------------------------------------------------
(* Specifications                                                          *)

DbIdle ==
    /\ movies = [id \in RowIds |-> NoRow]
    /\ users = [id \in UserIds |-> NoRow]
    /\ dbLast = NoWrite

MovieIdle ==
    /\ movie = NoRow
    /\ shown = NotRead

HealthIdle ==
    /\ dbDep = "up" /\ redisDep = "up" /\ tmdbKey = "" /\ tmdbDep = "up"
    /\ probe = [p \in Probes |-> [pc |-> "pending", out |-> Pending]]
    /\ contacted = FALSE
    /\ hresp = NoResponse
    /\ redisClient = "none"
    /\ answer = NoAnswer

CacheIdle ==
    /\ store = [k \in Keys |-> NoKey]
    /\ now = 0
    /\ req = [r \in Clients |-> Idle]
    /\ started = 0

\* writes to the movies table
InitDb == DbIdle /\ MovieIdle /\ HealthIdle /\ CacheIdle

NextDb == InsertMovie \/ UpdateMovie

SpecDb == InitDb /\ [][NextDb]_vars

\* writes to both tables. No constraint and no key joins users and movies,
\* so the writes to one table are followed while the other holds no row.
NextStorage ==
    \/ (users = [id \in UserIds |-> NoRow] /\ (InsertMovie \/ UpdateMovie))
    \/ (movies = [id \in RowIds |-> NoRow] /\ (InsertUser \/ UpdateUser))

SpecStorage == InitDb /\ [][NextStorage]_vars

\* the display properties of any Movie
InitMovie ==
    /\ DbIdle /\ HealthIdle /\ CacheIdle
    /\ movie \in Movies
    /\ shown = NotRead

NextMovie ==
    \/ ReadDisplayTitle
    \/ ReadDisplayYear
    \/ ReadDisplayOverview
    \/ ReadDisplayGenres
    \/ ReadPosterUrl

SpecMovie == InitMovie /\ [][NextMovie]_vars

\* GET /health/ in any state of the three dependencies
InitHealth ==
    /\ DbIdle /\ MovieIdle /\ CacheIdle
    /\ dbDep \in DbOutcomes
    /\ redisDep \in RedisOutcomes
    /\ tmdbKey \in TmdbKeys
    /\ tmdbDep \in TmdbOutcomes
    /\ probe = [p \in Probes |-> [pc |-> "pending", out |-> Pending]]
    /\ contacted = FALSE
    /\ hresp = NoResponse
    /\ redisClient = "none"
    /\ answer = NoAnswer

NextHealth == StartProbe \/ CheckDatabase \/ CheckRedis \/ CheckTmdb \/ HealthCheck

SpecHealth == InitHealth /\ [][NextHealth]_vars

\* the three narrower endpoints in any state of the three dependencies
NextEndpoints == SimpleHealthCheck \/ ReadinessCheck \/ LivenessCheck

SpecEndpoints == InitHealth /\ [][NextEndpoints]_vars

\* the reduction of GET /health/ on anything gather can hand it
GatherResults ==
    {Result(s, "", "") : s \in ProbeStatuses} \cup {NoneResult, Exception("error")}

InitReduce ==
    /\ DbIdle /\ MovieIdle /\ CacheIdle
    /\ dbDep = "up" /\ redisDep = "up" /\ tmdbKey = "" /\ tmdbDep = "up"
    /\ probe \in [Probes -> [pc : {"done"}, out : GatherResults]]
    /\ contacted = FALSE
    /\ hresp = NoResponse
    /\ redisClient = "none"
    /\ answer = NoAnswer

NextReduce == HealthCheck

SpecReduce == InitReduce /\ [][NextReduce]_vars

\* the cache requests of two clients, interleaved, over a keyspace that
\* holds keys of the application and of others, while time passes
InitCache ==
    /\ DbIdle /\ MovieIdle /\ HealthIdle
    /\ store = [k \in Keys |->
                   CASE k = test_key -> NoKey
                     [] k = MovieKey -> Entry(<<"movie">>, 0 - 1)
                     [] k = SessionKey -> Entry(<<"session">>, TestTtl)
                     [] k = NearKey -> Entry(<<"old">>, 0 - 1)]
    /\ now = 0
    /\ req = [r \in Clients |-> Idle]
    /\ started = 0

NextCache ==
    \/ TestStart \/ TestSetex \/ TestGet \/ TestTtlRead
    \/ StatsStart \/ StatsInfo \/ StatsKeyspace \/ StatsKeys
    \/ ClearStart \/ ClearKeys \/ ClearDelete
    \/ ListStart \/ ListKeys \/ ListTtl
    \/ StoreError
    \/ Tick

SpecCache == InitCache /\ [][NextCache]_vars

----------------------------------------------------------------------------
(* Claims                                                                  *)

\* C1: GET /health/ reduces the three probe statuses by precedence: any
\* unhealthy gives unhealthy and 503; else any warning gives degraded and
\* 200; else healthy and 200.
C1_Precedence ==
    (/\ hresp # NoResponse
     /\ \A p \in Probes : hresp.checks[p].kind = "dict")
        => LET st(p) == hresp.checks[p].status IN
           IF \E p \in Probes : st(p) = "unhealthy"
           THEN hresp.status = "unhealthy" /\ hresp.code = 503
           ELSE IF \E p \in Probes : st(p) = "warning"
           THEN hresp.status = "degraded" /\ hresp.code = 200
           ELSE hresp.status = "healthy" /\ hresp.code = 200

\* a warning next to an unhealthy probe: unhealthy wins, 503
C1_Witness ==
    /\ hresp.code = 503 /\ hresp.status = "unhealthy"
    /\ hresp.checks["database"].status = "healthy"
    /\ hresp.checks["redis"].status = "unhealthy"
    /\ hresp.checks["tmdb"].status = "warning"

Persisted == {id \in RowIds : movies[id] # NoRow}

SnapshotField(m, key) ==
    IF m.tmdb_snapshot[1] = "dict" /\ key \in DOMAIN m.tmdb_snapshot[2]
    THEN Some(m.tmdb_snapshot[2][key]) ELSE NULL

\* a property that returned: from the override when it is set and non-empty,
\* else from the snapshot's field when there is one, else the default
ResolvedInOrder(m, out, override, fromOverride, key, fromSnapshot, default) ==
    /\ Truthy(override) => out = Ret(fromOverride)
    /\ (~Truthy(override) /\ out.kind = "return") =>
           out = IF IsNull(SnapshotField(m, key)) THEN Ret(default) ELSE Ret(fromSnapshot)

\* C3: each display property resolves local override, then snapshot, then
\* default: a set, non-empty override decides the result whatever the
\* snapshot holds, the snapshot's field is used only without an override,
\* and the default only when neither supplies a value.
C3_LocalFirst ==
    LET m == movie
        out == shown.out
        f(key) == Val(SnapshotField(m, key))
    IN
    /\ shown.prop = "display_title" =>
           ResolvedInOrder(m, out, m.title, m.title, K_title, f(K_title), PyStr(UnknownTitle))
    /\ shown.prop = "display_overview" =>
           ResolvedInOrder(m, out, m.overview, m.overview, K_overview, f(K_overview), PyStr(<<>>))
    /\ shown.prop = "display_year" =>
           /\ Truthy(m.year) => out = Ret(m.year)
           /\ (~Truthy(m.year) /\ out.kind = "return"
                  /\ IsNull(SnapshotField(m, K_release_date))) => out = Ret(PyNone)
    /\ shown.prop = "display_genres" =>
           /\ Truthy(m.genres) => out = Ret(m.genres)
           /\ (~Truthy(m.genres) /\ out.kind = "return") =>
                  IF IsNull(SnapshotField(m, K_genres)) THEN out = Ret(PyList(<<>>))
                  ELSE /\ out.v[1] = "list"
                       /\ Len(out.v[2]) = Len(f(K_genres)[2])
                       /\ \A i \in 1..Len(out.v[2]) :
                              out.v[2][i] = f(K_genres)[2][i][2][K_name]
    /\ shown.prop = "poster_url" =>
           ResolvedInOrder(m, out, m.custom_poster_path,
                           PyStr(MediaPosters \o m.custom_poster_path[2]),
                           K_poster_path,
                           PyStr(TmdbImageW500 \o str(f(K_poster_path))), PyNone)

\* the title override has won over a snapshot that holds another title
C3_Witness ==
    /\ shown.prop = "display_title"
    /\ movie.title = PyStr(S_Local)
    /\ movie.tmdb_snapshot = WellFormedSnapshot
    /\ shown.out = Ret(PyStr(S_Local))

\* C4: on a Movie whose snapshot is absent or malformed (fields missing, null
\* or of the wrong type, genres whose elements lack a name), display_title,
\* display_overview, display_genres and poster_url never raise.
C4_NeverRaises ==
    (/\ shown.prop \in {"display_title", "display_overview", "display_genres", "poster_url"}
     /\ movie.tmdb_snapshot[1] \in {"none", "dict"})
        => shown.out.kind = "return"

\* what int() makes of the first four characters of the dates above
YearOfDate ==
    D_iso :> PyInt(2019) @@ D_bad :> PyNone @@ D_empty :> PyNone @@ D_short :> PyInt(201)
    @@ D_two_digit :> PyNone @@ D_signed :> PyInt(0 - 12) @@ D_blank :> PyInt(7)
    @@ D_underscore :> PyInt(100)

NoOverrideYear ==
    /\ shown.prop = "display_year"
    /\ movie.year = PyNone
    /\ movie.tmdb_snapshot[1] \in {"none", "dict"}

\* C5 as stated: display_year returns year when it is set; otherwise the
\* integer of the first 4 characters of release_date, and absent when the
\* date is non-numeric, shorter than 4 characters or missing.
C5_AsStated ==
    /\ (shown.prop = "display_year" /\ movie.year # PyNone) => shown.out = Ret(movie.year)
    /\ NoOverrideYear =>
           LET d == SnapshotField(movie, K_release_date)
               numeric == /\ ~IsNull(d) /\ Val(d)[1] = "str" /\ Len(Val(d)[2]) >= 4
                          /\ \A i \in 1..4 : IsDigit(Val(d)[2][i])
           IN  shown.out = IF numeric THEN Ret(PyInt(DigitsValue(SubSeq(Val(d)[2], 1, 4), 0)))
                           ELSE Ret(PyNone)

\* C5 as amended: display_year returns year when it is set; otherwise, on a
\* snapshot that is absent or an object, it returns int() of the first 4
\* characters of release_date (of the whole date when it is shorter) when
\* they are an integer literal, so "2019-05-01" gives 2019 and also "201"
\* gives 201; it returns absent, without raising, when they are none ("bad",
\* "", "19-05-01"), when release_date is null, a number or a list, and when
\* the field is missing.
C5_DisplayYear ==
    /\ (shown.prop = "display_year" /\ movie.year # PyNone) => shown.out = Ret(movie.year)
    /\ NoOverrideYear =>
           LET d == SnapshotField(movie, K_release_date) IN
           shown.out = IF ~IsNull(d) /\ Val(d)[1] = "str"
                       THEN Ret(YearOfDate[Val(d)[2]]) ELSE Ret(PyNone)

\* the year was read from the ISO date of a snapshot, and from a short date
C5_Witness ==
    /\ NoOverrideYear
    /\ SnapshotField(movie, K_release_date) = Some(PyStr(D_short))
    /\ shown.out = Ret(PyInt(201))


\* C6: whatever its dependency does, each probe hands the aggregator a result
\* with a status among healthy, unhealthy and warning and a message, so the
\* aggregator never meets a result without a status nor fails itself.
C6_ProbesReport ==
    /\ \A p \in Probes :
           probe[p].pc = "done" =>
               /\ probe[p].out.kind = "dict"
               /\ probe[p].out.status \in ProbeStatuses
               /\ probe[p].out.message[1] # ""
    /\ hresp # NoResponse => hresp.code \in {200, 503}

HealthyCheck(p) == probe[p].pc = "done" /\ probe[p].out.status = "healthy"

\* C7: the TMDB probe never fails the health request: without a credential
\* it reports warning "not configured" and sends no request; when the API is
\* unreachable, times out or answers an HTTP error it reports warning; and
\* with the database and Redis probes healthy GET /health/ answers 200,
\* degraded whenever the TMDB probe reports a warning.
C7_TmdbNeverFails ==
    LET t == probe["tmdb"] IN
    /\ t.pc = "done" =>
           /\ t.out.kind = "dict" /\ t.out.status \in {"healthy", "warning"}
           /\ tmdbKey \in {"", TmdbKeyPlaceholder} =>
                  /\ t.out = Result("warning", "TMDB API key not configured", "")
                  /\ ~contacted
           /\ tmdbDep \in {"unreachable", "timeout", "http_error"} => t.out.status = "warning"
    /\ (hresp # NoResponse /\ HealthyCheck("database") /\ HealthyCheck("redis")) =>
           /\ hresp.code = 200
           /\ t.out.status = "warning" => hresp.status = "degraded"

\* the API timed out with a credential configured: 200, degraded
C7_Witness ==
    /\ tmdbKey = "secret" /\ tmdbDep = "timeout" /\ contacted
    /\ HealthyCheck("database") /\ HealthyCheck("redis")
    /\ hresp.code = 200 /\ hresp.status = "degraded"

TestAnswered(r) == req[r].op = "test" /\ req[r].pc = "done" /\ req[r].resp.code = 200

Prefix == <<"c", "i", "n", "e", "b", "a", "s", "e", ":">>

InNamespace(k) == Len(k) >= Len(Prefix) /\ SubSeq(k, 1, Len(Prefix)) = Prefix

NamespaceKeys(st) == {k \in Keys : st[k].present /\ InNamespace(k)}

\* C9: POST /cache/clear lists every key under cinebase: and deletes the keys
\* it listed: when it answers, none of them is left, and deleted_keys is the
\* number of keys the request removed; on an empty namespace it answers 200
\* with deleted_keys 0.
C9_Clear ==
    [][\A r \in Clients :
          (req[r].op = "clear" /\ req[r].pc # "done") =>
              /\ (req[r].pc = "keys" /\ req'[r].pc = "delete") =>
                     Range(req'[r].listed) = NamespaceKeys(store)
              /\ (req'[r].pc = "done" /\ req'[r].resp.code = 200) =>
                     /\ req[r].pc = "keys" =>
                            NamespaceKeys(store) = {} /\ req'[r].resp.deleted_keys = 0
                     /\ req[r].pc = "delete" =>
                            \A k \in Range(req[r].listed) : ~store'[k].present
                     /\ req'[r].resp.deleted_keys =
                            Cardinality(NamespaceKeys(store)) - Cardinality(NamespaceKeys(store'))
      ]_vars

ClearAnswered(r) == req[r].op = "clear" /\ req[r].pc = "done" /\ req[r].resp.code = 200

\* a clear that removed two keys, and a clear after it that found none
C9_Witness ==
    /\ ClearAnswered("a") /\ req["a"].resp.deleted_keys = 2
    /\ ClearAnswered("b") /\ req["b"].resp.deleted_keys = 0
    /\ NamespaceKeys(store) = {}

\* C10: no step of a cache request changes the value or the TTL of a key
\* that does not begin with cinebase:, nor creates or deletes one, and GET
\* /cache/keys lists no such key.
C10_Frame ==
    [][/\ now' = now => \A k \in Keys : ~InNamespace(k) => store'[k] = store[k]
       /\ \A r \in Clients :
              req'[r].op = "keys" =>
                  \A i \in 1..Len(req'[r].resp.keys) : InNamespace(req'[r].resp.keys[i].key)
      ]_vars

\* after a clear that deleted and a listing that listed, the keys of others
\* are as they were
C10_Witness ==
    /\ ClearAnswered("a") /\ req["a"].resp.deleted_keys > 0
    /\ req["b"].op = "keys" /\ req["b"].pc = "done" /\ Len(req["b"].resp.keys) > 0
    /\ store[NearKey] = Entry(<<"old">>, 0 - 1)
    /\ store[SessionKey] = Entry(<<"session">>, TestTtl)

\* C11: a completed request holds no open connection: every cache request
\* that was answered has closed its client, and once check_redis has returned
\* the connection its client opened is closed
C11_Released ==
    /\ \A r \in Clients : req[r].pc = "done" => req[r].client = "closed"
    /\ probe["redis"].pc = "done" => redisClient # "open"

\* a step of r's request to GET /cache/stats or GET /cache/keys
ReadStep(r) ==
    /\ req'[r] # req[r]
    /\ req'[r].op \in {"stats", "keys"}

\* C12: no step of a GET /cache/stats or GET /cache/keys request, answered
\* or failed, changes the keys of the store, their values or their TTLs; the
\* cinebase_keys_count that stats reports and the total_keys that keys
\* reports are the number of keys under cinebase: when the request lists them.
C12_ReadOnly ==
    [][\A r \in Clients :
          ReadStep(r) =>
              /\ store' = store
              /\ (req[r].pc = "keys" /\ req'[r].resp.code # 500) =>
                     /\ req'[r].op = "stats" =>
                            /\ req'[r].pc = "done"
                            /\ req'[r].resp.cinebase_keys_count =
                                   Cardinality(NamespaceKeys(store))
                     /\ req'[r].op = "keys" =>
                            IF NamespaceKeys(store) = {}
                            THEN req'[r].pc = "done" /\ req'[r].resp.total_keys = 0
                            ELSE Range(req'[r].listed) = NamespaceKeys(store)
              /\ (req[r].pc = "ttl" /\ req'[r].pc = "done" /\ req'[r].resp.code = 200) =>
                     /\ req'[r].resp.total_keys = Len(req[r].listed)
                     /\ Len(req'[r].resp.keys) = Len(req[r].listed)
      ]_vars

\* stats counted two keys under the prefix in a database of four, and keys
\* listed the same two; the store is as the test request left it
C12_Witness ==
    /\ req["a"].op = "stats" /\ req["a"].pc = "done"
    /\ req["a"].resp.cinebase_keys_count = 2 /\ req["a"].resp.total_keys = 4
    /\ req["b"].op = "keys" /\ req["b"].pc = "done" /\ req["b"].resp.total_keys = 2
    /\ Cardinality(NamespaceKeys(store)) = 2

UserRows(tbl) == {tbl[id] : id \in {j \in UserIds : tbl[j] # NoRow}}

MovieRows(tbl) == {tbl[id] : id \in {j \in RowIds : tbl[j] # NoRow}}

\* what the claim requires of the rows of users
UsersValid(tbl) ==
    /\ \A u \in UserRows(tbl) :
           /\ u.role \in {Some("user"), Some("admin")}
           /\ u.email # NULL /\ Val(u.email).n > 0
           /\ u.password_hash # NULL /\ Val(u.password_hash).n > 0
    /\ \A i, j \in UserIds :
           (tbl[i] # NoRow /\ tbl[j] # NoRow /\ i # j) => tbl[i].email # tbl[j].email

\* what the claim requires of the rows of movies
MoviesValid(tbl) ==
    /\ \A m \in MovieRows(tbl) :
           /\ m.year = NULL \/ Val(m.year) \in 1888..2030
           /\ m.title = NULL \/ Val(m.title).n \in 1..255
    /\ \A i, j \in RowIds :
           (tbl[i] # NoRow /\ tbl[j] # NoRow /\ i # j /\ tbl[i].tmdb_id # NULL) =>
               tbl[i].tmdb_id # tbl[j].tmdb_id

\* C13: every insert and update leaves both tables with rows that satisfy
\* the constraints (users: role user or admin, email and password_hash
\* non-empty, email unique; movies: year null or in 1888..2030, title null
\* or of 1 to 255 characters, tmdb_id unique where present), and a write
\* that is rejected leaves both tables as they were.
C13_Storage ==
    [][/\ dbLast'.error # "none" => (users' = users /\ movies' = movies)
       /\ users' # users => (dbLast'.error = "none" /\ UsersValid(users'))
       /\ movies' # movies => (dbLast'.error = "none" /\ MoviesValid(movies'))
      ]_vars

\* a user and an admin are stored, and the last write, an update that gave
\* one the email of the other, was rejected by the unique index
C13_Witness ==
    /\ {u.role : u \in UserRows(users)} = {Some("user"), Some("admin")}
    /\ dbLast = [op |-> "update", error |-> "ix_users_email"]

\* C14: whatever the state of the database, Redis and the TMDB API, GET
\* /health/live answers 200 with status alive and GET /health/simple answers
\* 200, neither touching a dependency; GET /health/ready touches the database
\* only, answers 200 with status ready when its query succeeds and 503 with
\* status not_ready and a message when it fails.
C14_Endpoints ==
    /\ answer.endpoint = "live" =>
           answer.code = 200 /\ answer.status = "alive" /\ answer.checked = {}
    /\ answer.endpoint = "simple" =>
           answer.code = 200 /\ answer.checked = {}
    /\ answer.endpoint = "ready" =>
           /\ answer.checked \subseteq {"database"}
           /\ dbDep \in {"up", "fetchone_not_awaitable"} =>
                  answer.code = 200 /\ answer.status = "ready"
           /\ dbDep = "connect_error" =>
                  answer.code = 503 /\ answer.status = "not_ready" /\ answer.message # ""

\* ready while Redis refuses connections and the TMDB API is unreachable
C14_Witness ==
    /\ answer.endpoint = "ready" /\ answer.code = 200 /\ answer.status = "ready"
    /\ dbDep = "up" /\ redisDep = "down" /\ tmdbDep = "unreachable"

\* the overall status is computed once gather has a result of every probe
AfterAllProbes == hresp # NoResponse => \A p \in Probes : probe[p].pc = "done"

\* the response carries the entries of database, redis and tmdb
ThreeEntries ==
    hresp # NoResponse =>
        /\ hresp.code \in {200, 503}
        /\ \A p \in Probes : hresp.checks[p].kind = "dict"

\* C15: in GET /health/ the overall status is computed only after the three
\* probes, started without an order among them, have all finished, and the
\* response always contains an entry for each of database, redis and tmdb.
C15_Gather == AfterAllProbes /\ ThreeEntries

TestFailed(rq, exc) == rq.op = "test" /\ rq.pc = "done" /\ rq.exc = exc

\* C16: a GET /cache/test whose read-back finds no value, its write done,
\* fails with 500 and a reason, never answers success, and its detail differs
\* from the detail of a test that failed because Redis could not be
\* reached; every cache request that fails answers 500 with a detail that
\* is not empty.
C16_Failures ==
    [][\A r \in Clients :
          /\ (req[r].op = "test" /\ req[r].pc = "get" /\ req'[r].pc # "get"
                 /\ ~store[test_key].present) =>
                 /\ req'[r].pc = "done"
                 /\ req'[r].resp.code = 500
                 /\ req'[r].resp.detail # <<"", "">>
          /\ (req'[r].pc = "done" /\ req'[r].resp.code # 200) =>
                 /\ req'[r].resp.code = 500
                 /\ req'[r].resp.detail # <<"", "">>
          /\ \A q \in Clients :
                 (TestFailed(req'[r], "HTTPException") /\ TestFailed(req'[q], "ConnectionError")) =>
                     req'[r].resp.detail # req'[q].resp.detail
      ]_vars

\* one test lost its key to a clear before the read-back, another could
\* not reach Redis: both answered 500
C16_Witness ==
    /\ TestFailed(req["a"], "HTTPException") /\ req["a"].resp.code = 500
    /\ TestFailed(req["b"], "ConnectionError") /\ req["b"].resp.code = 500

====
